---------------------------- MODULE Spec2Model ----------------------------
(***************************************************************************)
(* A model of the recursive research orchestrator (deepResearch), of the   *)
(* structured-output extraction helper (safeGenerate) and of the text      *)
(* trimmer (trimPrompt).                                                   *)
(*                                                                         *)
(* An invocation of deepResearch is named by a path: the root is << >>,    *)
(* and the invocation started by branch i of invocation p is p \o <<i>>.   *)
(* A branch carries the same path as the child invocation it may start.    *)
(*                                                                         *)
(* The program runs on one event loop.  One action of the model is one     *)
(* continuation: what runs from the settling of an awaited timer or        *)
(* collaborator call up to the next await, together with every promise     *)
(* reaction (microtask) it triggers: the release of the p-limit slot, the  *)
(* admission of the next queued branch, Promise.all and the settling of    *)
(* the enclosing invocations.  The pacing timer that generateSerpQueries   *)
(* and processSerpResult await right before their completion call is one   *)
(* wait with that call: nothing of the state is read or written between    *)
(* the two.                                                                *)
(***************************************************************************)
EXTENDS Integers, Sequences, FiniteSets, TLC

VARIABLES inv, br, calls, sg, tp

vars == <<inv, br, calls, sg, tp>>

(***************************************************************************)
(* Bounds of the model.                                                    *)
(***************************************************************************)
\* the largest number of branches a call tree holds: a planner answer that
\* would start more is left out
MaxBranches == 5
\* the largest initial depth
MaxDepth == 3
\* how many more sub-queries than requested the planner's model may produce
OverProduce == 1
\* the longest model response, in tokens, given to safeGenerate
MaxTokens == 3

(***************************************************************************)
(* Program constants.                                                      *)
(***************************************************************************)
ConcurrencyLimit == 2

Root == << >>

Min(a, b) == IF a <= b THEN a ELSE b
Max(a, b) == IF a >= b THEN a ELSE b

Front(s) == SubSeq(s, 1, Len(s) - 1)
Last(s) == s[Len(s)]

Range(s) == {s[i] : i \in 1..Len(s)}

NoDup(s) == \A i, j \in 1..Len(s) : s[i] = s[j] => i = j

(***************************************************************************)
(* Pure helpers of the orchestrator.                                       *)
(***************************************************************************)
\* every value taken for a present one
IsTruthy_Always(x) == TRUE

\* lodash compact: drops the falsy entries (a missing url is modelled as "")
IsTruthy(x) == x # ""
Compact(items) == SelectSeq(items, IsTruthy)

\* no truncation: the whole array
Slice_Whole(s, n) == s

\* Array.prototype.slice(0, n)
Slice(s, n) ==
  IF n >= 0 THEN SubSeq(s, 1, Min(n, Len(s)))
  ELSE SubSeq(s, 1, Max(0, Len(s) + n))

\* [...new Set(s)]: the first occurrence of every element, in order
RECURSIVE SetSpread(_)
SetSpread(s) ==
  IF s = << >> THEN << >>
  ELSE LET f == SetSpread(Front(s))
       IN IF Last(s) \in Range(f) THEN f ELSE Append(f, Last(s))

\* Math.floor in the place of Math.ceil
NewBreadth_Floor(breadth) == breadth \div 2

\* Math.ceil(breadth / 2), for an integer breadth
NewBreadth(breadth) == (breadth + 1) \div 2

\* the depth handed down as it came
NewDepth_Same(depth) == depth

NewDepth(depth) == depth - 1
\* the guard of the recursion with >= in the place of >
Deeper_Inclusive(newDepth) == newDepth >= 0

\* the guard of the recursion
Deeper(newDepth) == newDepth > 0


(***************************************************************************)
(* Inputs: the budgets and accumulators deepResearch is called with, and   *)
(* what the collaborators may answer.                                      *)
(***************************************************************************)
\* <<breadth, depth>>: the wide budgets are shallow and the deep ones narrow
Budgets ==
  {bd \in (0..MaxBranches) \X (0..MaxDepth) : bd[1] * bd[2] <= MaxBranches + 1}

\* the empty accumulator, and one that holds what a branch may find again
Accumulators ==
  {[learnings |-> << >>, visitedUrls |-> << >>],
   [learnings |-> <<"a">>, visitedUrls |-> <<"u1">>]}

\* what the planner's model may produce, before the truncation: sub-queries
\* with a query text, the first one possibly with an empty text
PlannerOutputs(breadth) ==
  {[i \in 1..n |-> "q"] : n \in 0..(breadth + OverProduce)}
    \cup {[i \in 1..n |-> IF i = 1 THEN "" ELSE "q"] :
            n \in 1..(breadth + OverProduce)}

\* the urls of the items of a search response, "" for an item without url:
\* the sub-queries at odd places find one page, those at even places another
\* one after an item without url
SearchOutputs(b) == {IF Last(b) % 2 = 1 THEN <<"u1">> ELSE <<"", "u2">>}

\* what the distiller's model may produce: one learning and one follow-up
\* question, or four learnings, one of them twice, and three questions
DistillOutputs ==
  {[learnings |-> <<"a">>, followUpQuestions |-> <<"f1">>],
   [learnings |-> <<"b", "b", "c", "d">>,
    followUpQuestions |-> <<"f1", "f2", "f3">>]}

\* the default of processSerpResult's parameter numLearnings
NumLearnings == 3

\* processSerpResult: the parsed object as safeGenerate returns it; neither
\* numLearnings nor numFollowUpQuestions is read
ProcessSerpResult(res, numLearnings, numFollowUpQuestions) == res

(***************************************************************************)
(* The records of the state.                                               *)
(***************************************************************************)
NewInvocation(breadth, depth, learnings, visitedUrls) ==
  [st |-> "planning", plan |-> "pending", breadth |-> breadth, depth |-> depth,
   learnings |-> learnings, visitedUrls |-> visitedUrls,
   queries |-> << >>, active |-> 0, queue |-> << >>,
   resL |-> << >>, resU |-> << >>, err |-> "none"]

NewBranch ==
  [pc |-> "queued", settled |-> "pending",
   search |-> "none", distill |-> "none",
   newL |-> << >>, newU |-> << >>, followUps |-> << >>,
   retL |-> << >>, retU |-> << >>, err |-> "none"]

Outcome(how, L, U, e) == [how |-> how, L |-> L, U |-> U, err |-> e]

\* the value the catch block of a branch returns
CatchResult == Outcome("fulfilled", << >>, << >>, "none")

\* the value of a branch that stops at the invalid-query guard
InvalidQueryResult == Outcome("fulfilled", << >>, << >>, "none")

\* `return deepResearch(...)` inside the try block, not awaited: the promise
\* of the branch adopts the outcome of the child invocation, a rejection
\* included, and the catch block never sees it
ReturnedPromise(childOutcome) == childOutcome

\* the value of a branch that does not recurse
LeafResult(allLearnings, allUrls) ==
  Outcome("fulfilled", allLearnings, allUrls, "none")

Branches(S, p) == {p \o <<i>> : i \in 1..Len(S.inv[p].queries)}

FlatMap(S, p, field) ==
  LET Go[i \in 0..Len(S.inv[p].queries)] ==
        IF i = 0 THEN << >>
        ELSE Go[i - 1] \o (IF field = "L" THEN S.br[p \o <<i>>].retL
                           ELSE S.br[p \o <<i>>].retU)
  IN Go[Len(S.inv[p].queries)]

\* the merge without the Set
Merge_Concat(s) == s

\* the merge of deepResearch: the results of the branches in the order of
\* the sub-queries, flattened and spread through a Set
Merge(s) == SetSpread(s)

(***************************************************************************)
(* p-limit: the admission gate of one invocation.                          *)
(***************************************************************************)
\* the gate off by one
SlotFree_OffByOne(activeCount) == activeCount <= ConcurrencyLimit

\* no gate at all
SlotFree_Always(activeCount) == TRUE

SlotFree(activeCount) == activeCount < ConcurrencyLimit

RECURSIVE Admit(_, _)
Admit(S, p) ==
  LET v == S.inv[p]
  IN IF SlotFree(v.active) /\ v.queue # << >>
     THEN Admit([inv |-> [S.inv EXCEPT ![p].active = @ + 1,
                                       ![p].queue = Tail(@)],
                 br |-> [S.br EXCEPT ![p \o <<Head(v.queue)>>].pc = "waiting"]],
                p)
     ELSE S

\* a gate that gives the slot back only when the task's promise fulfils
Release_OnFulfilOnly(activeCount, how) ==
  IF how = "fulfilled" THEN activeCount - 1 ELSE activeCount

\* a slot never given back
Release_Never(activeCount, how) == activeCount

\* the slot of a completed task: p-limit runs next() after the task's
\* promise settles, fulfilled or rejected
Release(activeCount, how) == activeCount - 1

(***************************************************************************)
(* The settling of a branch and everything it triggers in the same turn    *)
(* of the event loop.                                                      *)
(***************************************************************************)
RECURSIVE SettleBranch(_, _, _)
RECURSIVE PromiseAll(_, _)

SettleBranch(S, b, o) ==
  LET p == Front(b)
      S1 == [inv |-> [S.inv EXCEPT ![p].active = Release(@, o.how)],
             br |-> [S.br EXCEPT ![b] =
                       [@ EXCEPT !.pc = "done", !.settled = o.how,
                                 !.retL = o.L, !.retU = o.U, !.err = o.err]]]
  IN PromiseAll(Admit(S1, p), p)

\* Promise.all over the branches of invocation p, then the return of p
PromiseAll(S, p) ==
  LET v == S.inv[p]
      bs == Branches(S, p)
      rejected == {b \in bs : S.br[b].settled = "rejected"}
  IN IF v.st # "running" THEN S
     ELSE IF rejected # {}
     THEN LET e == S.br[CHOOSE b \in rejected : TRUE].err
              S1 == [S EXCEPT !.inv[p].st = "rejected", !.inv[p].err = e]
          IN IF p = Root THEN S1
             ELSE SettleBranch(S1, p,
                               ReturnedPromise(Outcome("rejected", << >>, << >>, e)))
     ELSE IF \A b \in bs : S.br[b].settled = "fulfilled"
     THEN LET L == Merge(FlatMap(S, p, "L"))
              U == Merge(FlatMap(S, p, "U"))
              S1 == [S EXCEPT !.inv[p].st = "resolved",
                              !.inv[p].resL = L, !.inv[p].resU = U]
          IN IF p = Root THEN S1
             ELSE SettleBranch(S1, p,
                               ReturnedPromise(Outcome("fulfilled", L, U, "none")))
     ELSE S

Now == [inv |-> inv, br |-> br]

Becomes(S) == inv' = S.inv /\ br' = S.br

(***************************************************************************)
(* The actions of deepResearch.                                            *)
(***************************************************************************)
OrchInit ==
  \E bd \in Budgets, acc \in Accumulators :
    /\ inv = (Root :> NewInvocation(bd[1], bd[2], acc.learnings, acc.visitedUrls))
    /\ br = << >>
    /\ calls = [planner |-> 1, search |-> 0, distill |-> 0]

\* generateSerpQueries returns: the sub-queries are truncated to breadth,
\* every branch is handed to the limiter, and the first ones are admitted
PlannerReturns(p, out) ==
  /\ inv[p].st = "planning"
  /\ Cardinality(DOMAIN br) + Len(Slice(out, inv[p].breadth)) <= MaxBranches
  /\ LET queries == Slice(out, inv[p].breadth)
         n == Len(queries)
         S0 == [inv |-> [inv EXCEPT ![p].st = "running", ![p].plan = "returned",
                                    ![p].queries = queries,
                                    ![p].queue = [i \in 1..n |-> i]],
                br |-> br @@ [b \in {p \o <<i>> : i \in 1..n} |-> NewBranch]]
     IN Becomes(PromiseAll(Admit(S0, p), p))
  /\ UNCHANGED <<calls, sg, tp>>

\* a planner failure taken for an empty plan
PlannerFails_Swallowed(p) ==
  /\ inv[p].st = "planning"
  /\ LET S1 == [Now EXCEPT !.inv[p].st = "resolved", !.inv[p].plan = "threw"]
     IN Becomes(IF p = Root THEN S1
                ELSE SettleBranch(S1, p, Outcome("fulfilled", << >>, << >>, "none")))
  /\ UNCHANGED <<calls, sg, tp>>

\* generateSerpQueries throws (the completion fails, or safeGenerate cannot
\* parse): the call is outside any try block, so the invocation rejects
PlannerFails(p) ==
  /\ inv[p].st = "planning"
  /\ LET S1 == [Now EXCEPT !.inv[p].st = "rejected", !.inv[p].plan = "threw",
                           !.inv[p].err = "PlannerFailure"]
     IN Becomes(IF p = Root THEN S1
                ELSE SettleBranch(S1, p,
                       ReturnedPromise(Outcome("rejected", << >>, << >>,
                                               "PlannerFailure"))))
  /\ UNCHANGED <<calls, sg, tp>>

\* the pacing timer of an admitted branch fires: the invalid-query guard,
\* then the call of firecrawl.search
TimerFires(b) ==
  /\ br[b].pc = "waiting"
  /\ IF ~IsTruthy(inv[Front(b)].queries[Last(b)])
     THEN /\ Becomes(SettleBranch(Now, b, InvalidQueryResult))
          /\ UNCHANGED calls
     ELSE /\ br' = [br EXCEPT ![b].pc = "searching", ![b].search = "called"]
          /\ calls' = [calls EXCEPT !.search = @ + 1]
          /\ UNCHANGED inv
  /\ UNCHANGED <<sg, tp>>

\* firecrawl.search returns: the urls are collected and processSerpResult
\* is called
SearchReturns(b, items) ==
  /\ br[b].pc = "searching"
  /\ br' = [br EXCEPT ![b].pc = "distilling", ![b].search = "ok",
                      ![b].distill = "called", ![b].newU = Compact(items)]
  /\ calls' = [calls EXCEPT !.distill = @ + 1]
  /\ UNCHANGED <<inv, sg, tp>>

\* firecrawl.search throws: the catch block
SearchFails(b) ==
  /\ br[b].pc = "searching"
  /\ Becomes(SettleBranch([Now EXCEPT !.br[b].search = "failed"], b, CatchResult))
  /\ UNCHANGED <<calls, sg, tp>>

\* processSerpResult returns: recurse or stop
DistillReturns(b, res) ==
  /\ br[b].pc = "distilling"
  /\ LET v == inv[Front(b)]
         newBreadth == NewBreadth(v.breadth)
         newDepth == NewDepth(v.depth)
         newLearnings == ProcessSerpResult(res, NumLearnings, newBreadth)
         allLearnings == v.learnings \o newLearnings.learnings
         allUrls == v.visitedUrls \o br[b].newU
         S1 == [Now EXCEPT !.br[b].distill = "ok",
                           !.br[b].newL = newLearnings.learnings,
                           !.br[b].followUps = newLearnings.followUpQuestions]
     IN IF Deeper(newDepth)
        THEN /\ br' = [S1.br EXCEPT ![b].pc = "recursing"]
             /\ inv' = inv @@ (b :> NewInvocation(newBreadth, newDepth,
                                                  allLearnings, allUrls))
             /\ calls' = [calls EXCEPT !.planner = @ + 1]
        ELSE /\ Becomes(SettleBranch(S1, b, LeafResult(allLearnings, allUrls)))
             /\ UNCHANGED calls
  /\ UNCHANGED <<sg, tp>>

\* processSerpResult throws (parse failure or the 60 s abort): the catch block
DistillFails(b) ==
  /\ br[b].pc = "distilling"
  /\ Becomes(SettleBranch([Now EXCEPT !.br[b].distill = "failed"], b, CatchResult))
  /\ UNCHANGED <<calls, sg, tp>>

\* no extraction is modelled beside the orchestrator: the planner and the
\* distiller appear there by their outcomes
SgIdle == [pc |-> "idle"]

\* no text is trimmed beside the orchestrator: the contents the distiller
\* trims appear there by the distiller's outcomes
TpIdle == [phase |-> "idle"]

Init == OrchInit /\ sg = SgIdle /\ tp = TpIdle

Next ==
  \/ \E p \in DOMAIN inv :
       \E out \in PlannerOutputs(inv[p].breadth) : PlannerReturns(p, out)
  \/ \E p \in DOMAIN inv : PlannerFails(p)
  \/ \E b \in DOMAIN br : TimerFires(b)
  \/ \E b \in DOMAIN br : \E items \in SearchOutputs(b) : SearchReturns(b, items)
  \/ \E b \in DOMAIN br : SearchFails(b)
  \/ \E b \in DOMAIN br :
       \E res \in DistillOutputs : DistillReturns(b, res)
  \/ \E b \in DOMAIN br : DistillFails(b)

Spec == Init /\ [][Next]_vars

(***************************************************************************)
(* safeGenerate.  A text is a sequence of tokens:                          *)
(*   FENCE_JSON  the three backquotes followed by json                     *)
(*   FENCE       three backquotes                                          *)
(*   SP          a space: white space, not a control character             *)
(*   NL          a line feed: white space and a control character          *)
(*   CTL         a control character that is not white space               *)
(*   DOC         a JSON document that conforms to the schema               *)
(*   DOC_TC      the same with a comma before its last closing brace       *)
(*   OTHER       a JSON document that does not conform to the schema       *)
(*   PROSE       text that is not JSON                                     *)
(***************************************************************************)
Tokens ==
  {"FENCE_JSON", "FENCE", "SP", "NL", "CTL", "DOC", "DOC_TC", "OTHER", "PROSE"}

Texts == UNION {[1..n -> Tokens] : n \in 0..MaxTokens}

\* what generateText resolves with: a text, or no text at all
Responses ==
  {[defined |-> TRUE, text |-> t] : t \in Texts}
    \cup {[defined |-> FALSE, text |-> << >>]}

\* response.text ?? ''
ResponseText(response) == IF response.defined THEN response.text ELSE << >>

IsSpace(t) == t \in {"SP", "NL"}
IsControl(t) == t \in {"NL", "CTL"}
IsFence(t) == t \in {"FENCE", "FENCE_JSON"}

\* String.prototype.trim
RECURSIVE Trim(_)
Trim(s) ==
  IF s = << >> THEN s
  ELSE IF IsSpace(Head(s)) THEN Trim(Tail(s))
  ELSE IF IsSpace(Last(s)) THEN Trim(Front(s))
  ELSE s

\* the capture of the regular expression: what stands between the first
\* opening fence and the next fence, without the white space around it;
\* << >> also when nothing matches
Capture(text) ==
  LET opens == {i \in 1..Len(text) : text[i] = "FENCE_JSON"}
  IN IF opens = {} THEN << >>
     ELSE LET i == CHOOSE k \in opens : \A m \in opens : k <= m
              closes == {j \in (i + 1)..Len(text) : IsFence(text[j])}
          IN IF closes = {} THEN << >>
             ELSE LET j == CHOOSE k \in closes : \A m \in closes : k <= m
                  IN Trim(SubSeq(text, i + 1, j - 1))

\* jsonMatch && jsonMatch[1] ? jsonMatch[1].trim() : responseText.trim()
ExtractJson(responseText) ==
  IF Capture(responseText) # << >> THEN Trim(Capture(responseText))
  ELSE Trim(responseText)

\* the two replacements: the control characters go, then the trailing commas
NotControl(t) == ~IsControl(t)
Sanitize(jsonString) ==
  LET kept == SelectSeq(jsonString, NotControl)
  IN [i \in 1..Len(kept) |-> IF kept[i] = "DOC_TC" THEN "DOC" ELSE kept[i]]

\* JSON.parse accepts one document with white space around it
NotSpace(t) == ~IsSpace(t)
Parses(sanitizedJson) ==
  LET body == SelectSeq(sanitizedJson, NotSpace)
  IN Len(body) = 1 /\ body[1] \in {"DOC", "OTHER"}

\* schema.parse of the parsed document
Conforms(sanitizedJson) == SelectSeq(sanitizedJson, NotSpace) = <<"DOC">>

\* the error built from the sanitized text
ParseError_Sanitized(jsonString, sanitizedJson) ==
  [message |-> "invalid json from model", text |-> sanitizedJson]

\* new Error(`invalid json from model: ${jsonString}`)
ParseError(jsonString, sanitizedJson) ==
  [message |-> "invalid json from model", text |-> jsonString]

\* what safeGenerate does when the try block throws
AfterParseFailure(state, jsonString, sanitizedJson) ==
  [state EXCEPT !.pc = "done", !.result = "rejected",
                !.err = ParseError(jsonString, sanitizedJson)]

SgInit ==
  /\ sg = [pc |-> "start", calls |-> 0, response |-> [defined |-> FALSE, text |-> << >>],
           arrived |-> FALSE, result |-> "pending",
           err |-> [message |-> "", text |-> << >>]]
  /\ inv = << >> /\ br = << >>
  /\ calls = [planner |-> 0, search |-> 0, distill |-> 0]
  /\ tp = TpIdle

\* safeGenerate is called: generateText is invoked and awaited
SgCall ==
  /\ sg.pc = "start"
  /\ sg' = [sg EXCEPT !.pc = "awaiting", !.calls = @ + 1]
  /\ UNCHANGED <<inv, br, calls, tp>>

\* generateText resolves: extraction, sanitization, parse and validation
SgCompletionReturns(response) ==
  /\ sg.pc = "awaiting"
  /\ LET jsonString == ExtractJson(ResponseText(response))
         sanitizedJson == Sanitize(jsonString)
         got == [sg EXCEPT !.response = response, !.arrived = TRUE]
     IN sg' = IF Parses(sanitizedJson) /\ Conforms(sanitizedJson)
              THEN [got EXCEPT !.pc = "done", !.result = "fulfilled"]
              ELSE AfterParseFailure(got, jsonString, sanitizedJson)
  /\ UNCHANGED <<inv, br, calls, tp>>

\* generateText rejects (transport, abort): the await is outside the try block
SgCompletionThrows ==
  /\ sg.pc = "awaiting"
  /\ sg' = [sg EXCEPT !.pc = "done", !.result = "rejected",
                      !.err = [message |-> "completion failed", text |-> << >>]]
  /\ UNCHANGED <<inv, br, calls, tp>>

SgNext ==
  \/ SgCall
  \/ \E response \in Responses : SgCompletionReturns(response)
  \/ SgCompletionThrows

SgSpec == SgInit /\ [][SgNext]_vars

(***************************************************************************)
(* trimPrompt.  A text is known by its length in characters, by the kind   *)
(* of its characters, which gives what the encoder counts, and by the      *)
(* positions of its paragraph, sentence and word boundaries.               *)
(***************************************************************************)
MinChunkSize == 140

\* the longest text given to trimPrompt, in characters
MaxTextLen == 700

EmptyText == [len |-> 0, kind |-> "plain", bounds |-> {}]

\* no text: the place of a result that was not produced yet
NoText == [len |-> 0, kind |-> "none", bounds |-> {}]

Text(len, kind, bounds) ==
  IF len = 0 THEN EmptyText
  ELSE [len |-> len, kind |-> kind, bounds |-> {k \in bounds : k < len}]

\* encoder.encode(prompt).length: words of the usual kind take about one
\* token for 4 characters, dense text one token a character, and characters
\* the vocabulary holds no merge for 2 tokens each
EstimatedTokens(text) ==
  CASE text.kind = "plain" -> (text.len + 3) \div 4
    [] text.kind = "dense" -> text.len
    [] text.kind = "rare" -> 2 * text.len
    [] OTHER -> 0

\* prompt.slice(0, n), for n >= 0
Prefix(text, n) == Text(Min(n, text.len), text.kind, text.bounds)

\* splitter.splitText(prompt)[0] ?? '': the first chunk ends at the last
\* paragraph, sentence or word boundary within chunkSize; with boundaries
\* but none that near the split is made between characters; a text with no
\* boundary at all comes back whole
FirstChunk(prompt, chunkSize) ==
  LET fits == {k \in prompt.bounds : k <= chunkSize}
  IN IF fits # {} THEN Prefix(prompt, CHOOSE k \in fits : \A j \in fits : j <= k)
     ELSE IF prompt.bounds = {} THEN prompt
     ELSE Prefix(prompt, chunkSize)

\* a text cut again although it is exactly on the budget
UnderBudget_Strict(length, contextSize) == length < contextSize

UnderBudget(length, contextSize) == length <= contextSize

\* on average it's 3 characters per token
ChunkSize(prompt, contextSize) ==
  LET overflowTokens == EstimatedTokens(prompt) - contextSize
  IN prompt.len - overflowTokens * 3

\* the floor forgotten: the text goes back as it came
HardFloor_NoCut(prompt) == prompt

HardFloor(prompt) == Prefix(prompt, MinChunkSize)

Return(text) == [ret |-> TRUE, text |-> text]

\* the cut text returned with no further look at its size
Recurse_ReturnAtOnce(text) == [ret |-> TRUE, text |-> text]

\* return trimPrompt(text, contextSize)
Recurse(text) == [ret |-> FALSE, text |-> text]

\* one activation of trimPrompt: what it returns, or the text it calls
\* itself with
TrimStep(prompt, contextSize) ==
  IF prompt.len = 0 THEN Return(EmptyText)
  ELSE IF UnderBudget(EstimatedTokens(prompt), contextSize) THEN Return(prompt)
  ELSE LET chunkSize == ChunkSize(prompt, contextSize)
       IN IF chunkSize < MinChunkSize THEN Return(HardFloor(prompt))
          ELSE LET trimmedPrompt == FirstChunk(prompt, chunkSize)
               IN IF trimmedPrompt.len = prompt.len
                  THEN Recurse(Prefix(prompt, chunkSize))
                  ELSE Recurse(trimmedPrompt)

TextLengths == {n \in 0..MaxTextLen : n % (MinChunkSize \div 2) \in {0, 1}}

TextKinds == {"plain", "dense", "rare"}

TextBoundaries == {{}, {60}, {150, 450}, {60, 150, 300, 450}}

TpTexts ==
  {Text(len, kind, bounds) :
     len \in TextLengths, kind \in TextKinds, bounds \in TextBoundaries}

TpBudgets == {-1, 0, 1, 35, MinChunkSize - 1, MinChunkSize, 150, 190, 200, 300}

TpInit ==
  /\ \E t \in TpTexts, b \in TpBudgets :
       tp = [phase |-> "first", budget |-> b, orig |-> t, prompt |-> t,
             r1 |-> NoText, r2 |-> NoText, threw |-> FALSE]
  /\ inv = << >> /\ br = << >>
  /\ calls = [planner |-> 0, search |-> 0, distill |-> 0]
  /\ sg = SgIdle

\* an activation of trimPrompt calls trimPrompt with a shorter text
TpRecurses ==
  /\ tp.phase \in {"first", "second"}
  /\ LET step == TrimStep(tp.prompt, tp.budget)
     IN /\ ~step.ret
        /\ tp' = [tp EXCEPT !.prompt = step.text]
  /\ UNCHANGED <<inv, br, calls, sg>>

\* an activation of trimPrompt returns, and so do all that called it
TpReturns ==
  /\ tp.phase \in {"first", "second"}
  /\ LET step == TrimStep(tp.prompt, tp.budget)
     IN /\ step.ret
        /\ tp' = IF tp.phase = "first"
                 THEN [tp EXCEPT !.phase = "returned", !.r1 = step.text]
                 ELSE [tp EXCEPT !.phase = "done", !.r2 = step.text]
  /\ UNCHANGED <<inv, br, calls, sg>>

\* the caller hands the result to trimPrompt once more, same budget
TpCallAgain ==
  /\ tp.phase = "returned"
  /\ tp' = [tp EXCEPT !.phase = "second", !.prompt = tp.r1]
  /\ UNCHANGED <<inv, br, calls, sg>>

TpNext == TpRecurses \/ TpReturns \/ TpCallAgain

TpSpec == TpInit /\ [][TpNext]_vars

\* nothing is in flight: no planner call, no timer, no search, no distillation.
\* This is the negation of ENABLED <<Next>>_vars.
Quiescent ==
  /\ \A p \in DOMAIN inv : inv[p].st # "planning"
  /\ \A b \in DOMAIN br : br[b].pc \notin {"waiting", "searching", "distilling"}

\* the fairness the event loop and the claims' proviso give: a timer that is
\* due fires, and a collaborator call that is in flight returns or fails.
\* This is weak fairness of Next written out, []<>~ENABLED <<Next>>_vars \/
\* []<><<Next>>_vars, with Quiescent for the negation of ENABLED <<Next>>_vars
\* and, every step that changes vars being a step of Next, <<TRUE>>_vars for
\* <<Next>>_vars.
Fairness == []<>Quiescent \/ []<><<TRUE>>_vars

\* the scheduling does not read the accumulator: the calls that start with
\* an empty one
FairInit == Init /\ inv[Root].learnings = << >>

FairSpec == FairInit /\ [][Next]_vars /\ Fairness

\* deepResearch called with the defaults of learnings and visitedUrls, the
\* empty lists: what the branches are and when they run
FreshSpec == FairInit /\ [][Next]_vars

(***************************************************************************)
(* What the claims speak of.                                               *)
(***************************************************************************)
Admitted(b) == br[b].pc \notin {"queued", "done"}

BranchesOf(p) == {b \in DOMAIN br : Front(b) = p}

AdmittedOf(p) == {b \in BranchesOf(p) : Admitted(b)}

AllAdmitted == {b \in DOMAIN br : Admitted(b)}

Distilled(b) == br[b].search = "ok" /\ br[b].distill = "ok"

Contains(p, b) ==
  /\ Range(br[b].newL) \subseteq Range(inv[p].resL)
  /\ Range(br[b].newU) \subseteq Range(inv[p].resU)

(***************************************************************************)
(* C1. Once the planner call of the root invocation has succeeded, no      *)
(* failure raised in a branch leaves the branch: no branch rejects, and    *)
(* the root invocation does not reject.                                    *)
(***************************************************************************)
C1_BranchFailuresAbsorbed ==
  /\ \A b \in DOMAIN br : br[b].settled # "rejected"
  /\ inv[Root].plan = "returned" => inv[Root].st # "rejected"

(***************************************************************************)
(* C2. In a resolved invocation with two or more sub-queries of which one  *)
(* had its search fail, the result holds the learnings and the urls of     *)
(* every sibling whose own search and distillation succeeded.              *)
(***************************************************************************)
C2_SiblingsKeepTheirFindings ==
  \A p \in DOMAIN inv :
    ( /\ inv[p].st = "resolved"
      /\ Len(inv[p].queries) >= 2
      /\ \E f \in BranchesOf(p) : br[f].search = "failed" )
    => \A b \in BranchesOf(p) : Distilled(b) => Contains(p, b)

(***************************************************************************)
(* C3, as claimed. Counting the branches of all invocations of the call    *)
(* tree together, at most 2 are admitted (started and not yet completed).  *)
(***************************************************************************)
C3_GlobalCeiling == Cardinality(AllAdmitted) <= 2

(***************************************************************************)
(* C3, amended. The ceiling holds per invocation: each invocation has at   *)
(* most 2 of its own branches admitted, whatever the other invocations of  *)
(* the call tree have admitted.                                            *)
(***************************************************************************)
C3_PerInvocationCeiling ==
  \A p \in DOMAIN inv : Cardinality(AdmittedOf(p)) <= 2

\* an invocation at its ceiling whose branches await child invocations that
\* have branches admitted too: more than 2 in the call tree as a whole
C3_Witness ==
  /\ Cardinality(AllAdmitted) > 2
  /\ \E p \in DOMAIN inv :
       /\ Cardinality(AdmittedOf(p)) = 2
       /\ \A b \in AdmittedOf(p) : br[b].pc = "recursing" /\ AdmittedOf(b) # {}

(***************************************************************************)
(* C6. The result of a resolved root invocation holds the learnings of     *)
(* every successful distillation of every branch at every level, and the   *)
(* urls that branch collected.                                             *)
(***************************************************************************)
C6_GatheredLearningsKept ==
  inv[Root].st = "resolved"
    => \A b \in DOMAIN br : Distilled(b) => Contains(Root, b)

(***************************************************************************)
(* C7. The result of every resolved invocation holds no learning twice     *)
(* and no url twice.                                                       *)
(***************************************************************************)
C7_NoDuplicates ==
  \A p \in DOMAIN inv :
    inv[p].st = "resolved" => NoDup(inv[p].resL) /\ NoDup(inv[p].resU)

\* a resolved invocation, two branches of which returned the same learning
\* and the same url
C7_Witness ==
  \E p \in DOMAIN inv :
    /\ inv[p].st = "resolved"
    /\ \E b, c \in BranchesOf(p) :
         /\ b # c
         /\ Range(br[b].retL) \cap Range(br[c].retL) # {}
         /\ Range(br[b].retU) \cap Range(br[c].retU) # {}
         /\ ~NoDup(br[b].retL)

(***************************************************************************)
(* C8. Called with depth 1 and an empty accumulator, when the planner      *)
(* returned sub-queries and every branch searched and distilled with       *)
(* success: the planner was called once, there is no recursive invocation, *)
(* and the result is the union of what the branches produced, each string  *)
(* once.                                                                   *)
(***************************************************************************)
C8_Pre ==
  /\ inv[Root].depth = 1
  /\ inv[Root].learnings = << >> /\ inv[Root].visitedUrls = << >>
  /\ inv[Root].queries # << >>
  /\ \A b \in BranchesOf(Root) : br[b].pc = "done" /\ Distilled(b)

C8_DepthOne ==
  C8_Pre =>
    /\ calls.planner = 1
    /\ DOMAIN inv = {Root}
    /\ inv[Root].st = "resolved"
    /\ Range(inv[Root].resL) = UNION {Range(br[b].newL) : b \in BranchesOf(Root)}
    /\ Range(inv[Root].resU) = UNION {Range(br[b].newU) : b \in BranchesOf(Root)}
    /\ NoDup(inv[Root].resL) /\ NoDup(inv[Root].resU)

\* two branches or more, with different learnings and different urls
C8_Witness ==
  /\ C8_Pre
  /\ Len(inv[Root].queries) >= 2
  /\ Cardinality(Range(inv[Root].resL)) >= 2
  /\ Cardinality(Range(inv[Root].resU)) >= 2

(***************************************************************************)
(* C9. When the planner call of the root invocation fails, the root        *)
(* invocation rejects with that error, no branch is started and no search  *)
(* call is made.                                                           *)
(***************************************************************************)
C9_TopLevelPlannerFailure ==
  inv[Root].plan = "threw" =>
    /\ inv[Root].st = "rejected"
    /\ inv[Root].err = "PlannerFailure"
    /\ DOMAIN br = {}
    /\ calls.search = 0

C9_Witness == inv[Root].plan = "threw" /\ inv[Root].breadth >= 2

(***************************************************************************)
(* C4. Within one invocation at most 2 branches are admitted at any time,  *)
(* the gate counts exactly the admitted branches (a branch that completes, *)
(* by success or by failure, gives its slot back), a branch waits in the   *)
(* queue only while 2 others are admitted, and every queued branch is      *)
(* eventually admitted.                                                    *)
(***************************************************************************)
C4_Gate ==
  \A p \in DOMAIN inv :
    /\ Cardinality(AdmittedOf(p)) <= 2
    /\ inv[p].active = Cardinality(AdmittedOf(p))
    /\ (\E b \in BranchesOf(p) : br[b].pc = "queued")
         => Cardinality(AdmittedOf(p)) = 2

NoneQueued == \A b \in DOMAIN br : br[b].pc # "queued"

C4_AdmissionGate == []C4_Gate /\ <>[]NoneQueued

\* five branches: the first two completed, one by a failure and one by a
\* success, two of the queued ones admitted in their place, the fifth waiting
C4_Witness ==
  /\ Len(inv[Root].queries) = 5
  /\ br[<<5>>].pc = "queued"
  /\ Cardinality(AdmittedOf(Root)) = 2
  /\ \E b, c \in BranchesOf(Root) :
       /\ br[b].pc = "done" /\ br[b].search = "failed"
       /\ br[c].pc = "done" /\ Distilled(c)

(***************************************************************************)
(* C5. Every recursive invocation has the depth of its parent minus 1,     *)
(* which is greater than 0, and half the breadth of its parent rounded up; *)
(* the nesting of the invocations stays within the initial depth; and the  *)
(* root invocation terminates.                                             *)
(***************************************************************************)
C5_Budget ==
  \A p \in DOMAIN inv \ {Root} :
    LET parent == inv[Front(p)]
    IN /\ inv[p].depth = parent.depth - 1
       /\ inv[p].depth > 0
       /\ 2 * inv[p].breadth \in {parent.breadth, parent.breadth + 1}
       /\ Len(p) + 1 <= inv[Root].depth

RootSettled == inv[Root].st \in {"resolved", "rejected"}

C5_BudgetDecreases == []C5_Budget /\ <>RootSettled

\* a settled root above three nested levels, one of them with an odd breadth
C5_Witness ==
  /\ RootSettled
  /\ \E p \in DOMAIN inv : Len(p) = 2
  /\ \E p \in DOMAIN inv \ {Root} : inv[Front(p)].breadth % 2 = 1

(***************************************************************************)
(* C10. One extraction makes exactly one completion call, and when the     *)
(* extracted payload does not parse or does not conform (an empty response *)
(* included) it fails with an error that carries the extracted text.       *)
(***************************************************************************)
C10_OneCallNoRetry ==
  /\ sg.calls <= 1
  /\ sg.pc # "start" => sg.calls = 1
  /\ (sg.pc = "done" /\ sg.arrived) =>
       LET extracted == ExtractJson(ResponseText(sg.response))
       IN IF Conforms(Sanitize(extracted))
          THEN sg.result = "fulfilled"
          ELSE /\ sg.result = "rejected"
               /\ sg.err.message = "invalid json from model"
               /\ sg.err.text = extracted

\* a fenced payload that does not parse, with text around the fences
C10_Witness ==
  /\ sg.pc = "done" /\ sg.arrived /\ sg.result = "rejected"
  /\ sg.err.text # << >>
  /\ sg.err.text # ResponseText(sg.response)
  /\ Capture(ResponseText(sg.response)) # << >>

\* no text at all in the response
C10_WitnessEmpty ==
  /\ sg.pc = "done" /\ sg.arrived /\ sg.result = "rejected"
  /\ ~sg.response.defined /\ sg.err.text = << >>

(***************************************************************************)
(* C11. For every text and every positive budget, trimPrompt returns a     *)
(* text that the encoder counts within the budget or that is at most 140   *)
(* characters long, and a text that was within the budget comes back as    *)
(* it was; every call trimPrompt makes of itself is with a shorter text,   *)
(* so it terminates.                                                       *)
(***************************************************************************)
TpReturned == tp.phase \in {"returned", "second", "done"}

C11_WithinBudgetOrFloor ==
  (TpReturned /\ tp.budget > 0) =>
    /\ EstimatedTokens(tp.r1) <= tp.budget \/ tp.r1.len <= MinChunkSize
    /\ EstimatedTokens(tp.orig) <= tp.budget => tp.r1 = tp.orig

C11_Shrinks ==
  (tp.phase \in {"first", "second"} /\ tp'.phase = tp.phase)
    => tp'.prompt.len < tp.prompt.len

C11_TrimRespectsBudgetOrFloor == []C11_WithinBudgetOrFloor /\ [][C11_Shrinks]_vars

\* a text over the budget, cut at a boundary and then between characters
\* to a text within the budget that is longer than the floor
C11_Witness ==
  /\ tp.phase = "returned" /\ tp.budget > 0
  /\ EstimatedTokens(tp.orig) > tp.budget
  /\ tp.r1.len > MinChunkSize /\ tp.r1.len < tp.orig.len
  /\ EstimatedTokens(tp.r1) <= tp.budget
  /\ tp.r1.len \notin tp.orig.bounds
  /\ \E k \in tp.orig.bounds : k > tp.r1.len

\* a text cut to the floor that the encoder still counts over the budget
C11_WitnessFloor ==
  /\ tp.phase = "returned" /\ tp.budget > 0
  /\ tp.r1.len = MinChunkSize /\ tp.orig.len > MinChunkSize
  /\ EstimatedTokens(tp.r1) > tp.budget

(***************************************************************************)
(* C12. For a budget of at least the floor size (140), trimming the        *)
(* result of trimPrompt again with the same budget gives that result.      *)
(***************************************************************************)
C12_Idempotent ==
  (tp.phase = "done" /\ tp.budget >= MinChunkSize) => tp.r2 = tp.r1

\* the second call was given a text that had been cut to the floor and is
\* still over the budget: it goes through the cut again
C12_Witness ==
  /\ tp.phase = "done" /\ tp.budget >= MinChunkSize
  /\ tp.r1 # tp.orig
  /\ EstimatedTokens(tp.r1) > tp.budget

(***************************************************************************)
(* C13, as claimed. Called with a budget less than or equal to 0,          *)
(* trimPrompt returns no text: it fails with an argument error.            *)
(***************************************************************************)
C13_NonPositiveBudgetFails ==
  (tp.phase # "idle" /\ tp.budget <= 0) => (~TpReturned \/ tp.threw)

(***************************************************************************)
(* C13, amended. Called with a budget less than or equal to 0, trimPrompt  *)
(* raises no error: it returns a text of at most 140 characters that is no *)
(* longer than the one it was given (the empty text for the empty text).   *)
(***************************************************************************)
C13_NonPositiveBudgetReturnsFloor ==
  (tp.phase # "idle" /\ tp.budget <= 0) =>
    /\ ~tp.threw
    /\ TpReturned =>
         /\ tp.r1.len <= MinChunkSize
         /\ tp.r1.len <= tp.orig.len
         /\ tp.r1.kind = tp.orig.kind

\* a long text and a budget of 0 or less: cut by the splitter first and
\* then to the floor
C13_Witness ==
  /\ tp.phase = "returned" /\ tp.budget <= 0
  /\ tp.prompt # tp.orig
  /\ tp.r1.len = MinChunkSize

(***************************************************************************)
(* C14. The planner hands over at most as many sub-queries as were asked   *)
(* for, however many its model produced, so an invocation (its breadth     *)
(* being 0 or more) starts at most breadth branches: one for each          *)
(* sub-query handed over, and no other.                                    *)
(***************************************************************************)
C14_AtMostBreadthBranches ==
  \A p \in DOMAIN inv :
    /\ Len(inv[p].queries) <= inv[p].breadth
    /\ BranchesOf(p) = {p \o <<i>> : i \in 1..Len(inv[p].queries)}
    /\ Cardinality(BranchesOf(p)) <= inv[p].breadth

\* a root invocation that started as many branches as its breadth, 3 or
\* more, and a recursive invocation that started as many as its own
C14_Witness ==
  \E p \in DOMAIN inv \ {Root} :
    /\ Cardinality(BranchesOf(p)) = inv[p].breadth
    /\ inv[Root].breadth >= 3
    /\ Cardinality(BranchesOf(Root)) = inv[Root].breadth

(***************************************************************************)
(* C15. A branch whose sub-query has no query text makes no search call    *)
(* and no distiller call and starts no invocation; it completes fulfilled  *)
(* with no learnings and no urls; and its siblings are not affected: the   *)
(* result of its invocation, when resolved, is the merge of what the       *)
(* siblings returned, and its invocation rejects only when a sibling does. *)
(***************************************************************************)
NoQueryText(b) == inv[Front(b)].queries[Last(b)] = ""

C15_InvalidQueryIsEmptyContribution ==
  \A b \in DOMAIN br :
    NoQueryText(b) =>
      LET p == Front(b)
          siblings == BranchesOf(p) \ {b}
      IN /\ br[b].search = "none" /\ br[b].distill = "none"
         /\ b \notin DOMAIN inv
         /\ br[b].pc \in {"queued", "waiting", "done"}
         /\ br[b].pc = "done" =>
              /\ br[b].settled = "fulfilled"
              /\ br[b].retL = << >> /\ br[b].retU = << >>
         /\ inv[p].st = "resolved" =>
              /\ Range(inv[p].resL) = UNION {Range(br[c].retL) : c \in siblings}
              /\ Range(inv[p].resU) = UNION {Range(br[c].retU) : c \in siblings}
         /\ inv[p].st = "rejected" =>
              \E c \in siblings : br[c].settled = "rejected"
         /\ calls.search =
              Cardinality({c \in DOMAIN br : br[c].search # "none"})

\* a resolved invocation with a branch stopped at the guard and two siblings
\* that searched and distilled and whose findings are in the result
C15_Witness ==
  \E b \in DOMAIN br :
    /\ NoQueryText(b) /\ br[b].pc = "done"
    /\ inv[Front(b)].st = "resolved"
    /\ \E c, d \in BranchesOf(Front(b)) \ {b} :
         /\ c # d /\ Distilled(c) /\ Distilled(d)
         /\ br[c].retL # << >> /\ br[d].retU # << >>
         /\ Contains(Front(b), c) /\ Contains(Front(b), d)

(***************************************************************************)
(* C16. An invocation has its outcome (it is resolved or rejected) only    *)
(* when every branch of it and every branch and invocation below them has  *)
(* completed; and in a branch the distiller is called only after the       *)
(* search returned, the recursion started only after the distiller         *)
(* returned, and the search called only after the planner call of the      *)
(* invocation returned.                                                    *)
(***************************************************************************)
Below(p, q) == Len(q) > Len(p) /\ SubSeq(q, 1, Len(p)) = p

Settled(p) == inv[p].st \in {"resolved", "rejected"}

C16_BranchOrder ==
  \A b \in DOMAIN br :
    /\ br[b].search # "none" => inv[Front(b)].plan = "returned"
    /\ br[b].distill # "none" => br[b].search = "ok"
    /\ (b \in DOMAIN inv \/ br[b].pc = "recursing") => br[b].distill = "ok"

C16_ResolvedAfterAllBranches ==
  \A p \in DOMAIN inv :
    inv[p].st = "resolved" =>
      /\ \A b \in DOMAIN br : Below(p, b) => br[b].pc = "done"
      /\ \A q \in DOMAIN inv : Below(p, q) => Settled(q)

C16_OutcomeAfterAllBranches ==
  /\ C16_BranchOrder
  /\ \A p \in DOMAIN inv :
       Settled(p) =>
         /\ \A b \in DOMAIN br : Below(p, b) => br[b].pc = "done"
         /\ \A q \in DOMAIN inv : Below(p, q) => Settled(q)

(***************************************************************************)
(* C17. The distiller, called with numFollowUpQuestions = ceil(breadth/2)  *)
(* and the default number of learnings (3), returns at most that many      *)
(* follow-up questions and at most that many learnings, whatever its model *)
(* produced.                                                               *)
(***************************************************************************)
C17_DistillerBounded ==
  \A b \in DOMAIN br :
    br[b].distill = "ok" =>
      /\ Len(br[b].followUps) <= NewBreadth(inv[Front(b)].breadth)
      /\ Len(br[b].newL) <= NumLearnings

(***************************************************************************)
(* C18. The recursion does not deadlock on the admission gate.  A branch   *)
(* that awaits the invocation it started keeps its slot, the gate of the   *)
(* child is the child's own, and whenever nothing is in flight (no planner *)
(* call, timer, search or distillation) every branch has completed and     *)
(* every invocation has its outcome; and, the calls in flight returning or *)
(* failing, every invocation eventually completes, with all its branches.  *)
(***************************************************************************)
AllComplete ==
  /\ \A p \in DOMAIN inv : Settled(p)
  /\ \A b \in DOMAIN br : br[b].pc = "done"

C18_NothingStuck ==
  /\ \A b \in DOMAIN br :
       br[b].pc = "recursing" =>
         /\ b \in DOMAIN inv /\ ~Settled(b)
         /\ inv[Front(b)].active >=
              Cardinality({c \in BranchesOf(Front(b)) : br[c].pc = "recursing"})
         /\ inv[b].active <= Cardinality(BranchesOf(b))
  /\ Quiescent => AllComplete

C18_NoDeadlock == []C18_NothingStuck /\ <>[]AllComplete

\* all is complete in a call tree whose root had three branches for two
\* slots, each of which held its slot over a recursive invocation
C18_Witness ==
  /\ AllComplete
  /\ inv[Root].st = "resolved"
  /\ Len(inv[Root].queries) >= 3
  /\ \A b \in BranchesOf(Root) : b \in DOMAIN inv
  /\ \E b \in BranchesOf(Root) : BranchesOf(b) # {}

(***************************************************************************)
(* C19. Called with depth 0, deepResearch does the work of one level, as   *)
(* with depth 1: its planner is called, every sub-query with a query text  *)
(* is searched and, the search returning, distilled, and no invocation is  *)
(* started; done, it resolves with the merge of the accumulator and the    *)
(* findings of every distilled branch.  The nesting of the invocations,    *)
(* for an initial depth d >= 0, is at most max(1, d) levels.               *)
(***************************************************************************)
Shallow == inv[Root].depth \in {0, 1}

C19_OneLevel ==
  Shallow =>
    /\ calls.planner = 1
    /\ DOMAIN inv = {Root}
    /\ \A b \in DOMAIN br :
         br[b].pc = "done" =>
           /\ br[b].settled = "fulfilled"
           /\ br[b].search = "none" <=> NoQueryText(b)
           /\ br[b].search = "ok" => br[b].distill \in {"ok", "failed"}
           /\ br[b].retL =
                IF Distilled(b) THEN inv[Root].learnings \o br[b].newL ELSE << >>
    /\ (inv[Root].plan = "returned"
          /\ \A b \in BranchesOf(Root) : br[b].pc = "done")
         => inv[Root].st = "resolved"

C19_DepthZeroIsOneLevel ==
  /\ C19_OneLevel
  /\ \A p \in DOMAIN inv : Len(p) + 1 <= Max(1, inv[Root].depth)

\* depth 0: two branches or more searched and distilled, and the root
\* resolved with what they found
C19_Witness ==
  /\ inv[Root].depth = 0
  /\ inv[Root].st = "resolved"
  /\ calls.search >= 2 /\ calls.distill >= 2
  /\ \E b, c \in BranchesOf(Root) : b # c /\ Distilled(b) /\ Distilled(c)
  /\ inv[Root].resL # << >> /\ inv[Root].resU # << >>

\* depth 3: three levels
C19_WitnessDeep ==
  /\ inv[Root].depth = 3
  /\ \E p \in DOMAIN inv : Len(p) + 1 = 3

(***************************************************************************)
(* C20. Every invocation has at most 2 branches admitted, and an admitted  *)
(* branch has at most one invocation in flight below it, which it started  *)
(* after its distillation; so the invocations at level k (the root is      *)
(* level 1) are at most 2^(k-1) in flight and the branches admitted at     *)
(* level k at most 2^k, and of the whole call tree more than 2 branches    *)
(* can be admitted at once.                                                *)
(***************************************************************************)
\* the branches of the invocations at level k
AdmittedAtLevel(k) == {b \in DOMAIN br : Len(b) = k /\ Admitted(b)}

InFlightAtLevel(k) == {p \in DOMAIN inv : Len(p) + 1 = k /\ ~Settled(p)}

Levels == 1..(MaxDepth + 1)

C20_CeilingPerLevel ==
  /\ \A p \in DOMAIN inv : Cardinality(AdmittedOf(p)) <= ConcurrencyLimit
  /\ \A b \in DOMAIN br :
       (b \in DOMAIN inv /\ ~Settled(b)) => br[b].pc = "recursing"
  /\ \A k \in Levels :
       /\ Cardinality(InFlightAtLevel(k)) <= 2^(k - 1)
       /\ Cardinality(AdmittedAtLevel(k)) <= 2^k

\* more than 2 branches admitted at level 2 alone, under two admitted
\* branches of the root
C20_Witness ==
  /\ Cardinality(AdmittedAtLevel(1)) = 2
  /\ Cardinality(AdmittedAtLevel(2)) > 2

=============================================================================
